---- MODULE Spec2Model ----
(***************************************************************************)
(* A model of manzana's two unsafe cores: the page-aligned buffer          *)
(* allocator (src/unified_memory.rs) and the IOKit service wrapper         *)
(* (src/ffi/iokit.rs) with the monitor built on it (src/afterburner.rs).   *)
(***************************************************************************)
EXTENDS Integers, Sequences, FiniteSets, TLC

VARIABLES
    bufs,        \* UmaBuffer values by slot: [st, ptr, len, layout]
    reqLen,      \* history: the len argument of the new() that made the slot's buffer
    blocks,      \* the global allocator's live blocks: [ptr, layout]
    mem,         \* memory content as runs [lo, hi, v]: bytes lo <= a < hi hold v
    deallocs,    \* history: number of dealloc(ptr, layout) calls made
    badDealloc,  \* history: a dealloc named no live block, or another layout than alloc got
    ret,         \* the last buffer call and what it returned
    writes,      \* number of byte writes and copies done so far
    registry,    \* the service class names the IOKit registry holds a service for
    mons,        \* AfterburnerMonitor values by slot: [st, service]
    urefs,       \* by service handle: references acquired and not yet released
    relCount,    \* history: IOObjectRelease calls made for the slot's handle
    badRelease,  \* history: a release named handle 0 or a handle with no reference
    ioRet,       \* the last monitor call and what it returned
    query        \* the last get_stats call on its own: what IOKit answered, what came back

umaVars == <<bufs, reqLen, blocks, mem, deallocs, badDealloc, ret, writes>>

ioVars == <<registry, mons, urefs, relCount, badRelease, ioRet>>

vars == <<umaVars, ioVars, query>>

-----------------------------------------------------------------------------
(* usize values.  TLC's integers are 32 bits wide and MAX_ALLOCATION is    *)
(* 2^34, so a usize is held as two limbs, hi * Radix + lo.                 *)

Radix == 2^12

W(h, l) == [hi |-> h, lo |-> l]

FromNat(n) == W(n \div Radix, n % Radix)

WAdd(a, b) ==
    LET s == a.lo + b.lo IN W(a.hi + b.hi + (s \div Radix), s % Radix)

\* a - b for a >= b
WSub(a, b) ==
    IF a.lo >= b.lo THEN W(a.hi - b.hi, a.lo - b.lo)
    ELSE W(a.hi - b.hi - 1, a.lo + Radix - b.lo)

WLt(a, b) == a.hi < b.hi \/ (a.hi = b.hi /\ a.lo < b.lo)

WLe(a, b) == ~WLt(b, a)

RECURSIVE BitAnd(_, _)
BitAnd(x, y) ==
    IF x = 0 \/ y = 0 THEN 0
    ELSE (x % 2) * (y % 2) + 2 * BitAnd(x \div 2, y \div 2)

\* a & !m
WAndNot(a, m) == W(a.hi - BitAnd(a.hi, m.hi), a.lo - BitAnd(a.lo, m.lo))

\* a % n for 0 < n <= Radix
WMod(a, n) == (((a.hi % n) * (Radix % n)) + a.lo) % n

-----------------------------------------------------------------------------
(* Constants of unified_memory.rs *)

PAGE_SIZE == 4096

\* 17_179_869_184 = 4194304 * 4096
MAX_ALLOCATION == W(4194304, 0)

-----------------------------------------------------------------------------
(* Bounds of the model *)

MaxBufs == 2      \* buffers ever created
MaxWrites == 2    \* byte writes and copies in one behaviour

BufIds == 1..MaxBufs

\* bytes are only copied and compared with 0: zero and one other value
\* stand for the 256
Byte == {0, 1}

\* lengths a caller asks for: both sides of every boundary of new()
LenChoices ==
    { FromNat(0), FromNat(1), FromNat(PAGE_SIZE + 1),
      MAX_ALLOCATION, WAdd(MAX_ALLOCATION, FromNat(1)) }

\* indices a caller reads or writes through a slice
IdxChoices ==
    { FromNat(0), FromNat(1), FromNat(PAGE_SIZE) }

\* sources a caller copies from
SrcChoices == { <<>>, <<1>>, <<0, 1>> }

\* lengths a caller asks zeroed() for; new() validates them, and is called
\* with the values at the 16 GiB boundary through New
ZeroedLenChoices == { FromNat(0), FromNat(1), FromNat(PAGE_SIZE + 1) }

NullPtr == W(0, 0)

\* addresses the allocator may hand out (when aligned and free for the layout)
HeapAddrs == { W(16, 0), W(17, 0), W(16, 8) }

\* end of the address range whose content is tracked
HeapTop == W(8388608, 0)

-----------------------------------------------------------------------------
(* Error constructors of error.rs *)

Error_invalid_input(reason) == [kind |-> "InvalidInput", reason |-> reason]

Error_internal(details) == [kind |-> "Internal", details |-> details]

Ok(v) == [tag |-> "Ok", val |-> v]

Err(e) == [tag |-> "Err", err |-> e]

-----------------------------------------------------------------------------
(* Memory content *)

Overlaps(alo, ahi, blo, bhi) == WLt(alo, bhi) /\ WLt(blo, ahi)

WMax(a, b) == IF WLt(a, b) THEN b ELSE a

WMin(a, b) == IF WLt(a, b) THEN a ELSE b

\* the byte at address a
ReadByte(m, a) == (CHOOSE r \in m : WLe(r.lo, a) /\ WLt(a, r.hi)).v

\* runs that touch and hold the same value become one run
RECURSIVE Merge(_)
Merge(m) ==
    IF \E r1, r2 \in m : r1.hi = r2.lo /\ r1.v = r2.v
    THEN LET pr == CHOOSE pr \in m \X m : pr[1].hi = pr[2].lo /\ pr[1].v = pr[2].v
         IN Merge((m \ {pr[1], pr[2]}) \cup
                  { [lo |-> pr[1].lo, hi |-> pr[2].hi, v |-> pr[1].v] })
    ELSE m

\* m with bytes lo <= a < hi set to v
Fill(m, lo, hi, v) ==
    IF ~WLt(lo, hi) THEN m
    ELSE LET keep == { r \in m : ~Overlaps(r.lo, r.hi, lo, hi) }
             cut  == { r \in m : Overlaps(r.lo, r.hi, lo, hi) }
             left  == { [lo |-> r.lo, hi |-> lo, v |-> r.v] :
                          r \in { c \in cut : WLt(c.lo, lo) } }
             right == { [lo |-> hi, hi |-> r.hi, v |-> r.v] :
                          r \in { c \in cut : WLt(hi, c.hi) } }
         IN Merge(keep \cup left \cup right \cup { [lo |-> lo, hi |-> hi, v |-> v] })

\* every byte lo <= a < hi of m is v
AllBytes(m, lo, hi, v) ==
    \A r \in m : Overlaps(r.lo, r.hi, lo, hi) => r.v = v

\* m1 and m2 hold the same bytes at lo <= a < hi
SameBytes(m1, m2, lo, hi) ==
    \A a \in {lo} \cup { r.lo : r \in m1 \cup m2 } :
        (WLe(lo, a) /\ WLt(a, hi)) => ReadByte(m1, a) = ReadByte(m2, a)

-----------------------------------------------------------------------------
(* std::alloc, by its contract *)

IsPow2(n) == n \in { 2^k : k \in 0..12 }

\* Layout::from_size_align.  Its size condition, size <= isize::MAX - (align - 1),
\* is not modelled: sizes here stay below 2^35.
Layout_from_size_align(size, align) ==
    IF IsPow2(align) THEN Ok([size |-> size, align |-> align])
    ELSE Err("LayoutError")

BlockEnd(b) == WAdd(b.ptr, b.layout.size)

\* what alloc(layout) may return: null, or the start of a block of layout.size
\* bytes, aligned to layout.align, overlapping no live block
alloc(layout) ==
    {NullPtr} \cup
    { p \in HeapAddrs :
        /\ WMod(p, layout.align) = 0
        /\ WLe(WAdd(p, layout.size), HeapTop)
        /\ \A b \in blocks :
             ~Overlaps(p, WAdd(p, layout.size), b.ptr, BlockEnd(b)) }

-----------------------------------------------------------------------------
(* UmaBuffer *)

NoBuf ==
    [st |-> "none", ptr |-> NullPtr, len |-> FromNat(0),
     layout |-> [size |-> FromNat(0), align |-> 1]]

UmaBuffer(ptr, n, layout) ==
    [st |-> "live", ptr |-> ptr, len |-> n, layout |-> layout]

Live(i) == bufs[i].st = "live"

aligned_len_no_minus_one(n) ==
    WAndNot(WAdd(n, FromNat(PAGE_SIZE)), WSub(FromNat(PAGE_SIZE), FromNat(1)))

aligned_len_one_page(n) == FromNat(PAGE_SIZE)

\* (len + PAGE_SIZE - 1) & !(PAGE_SIZE - 1)
aligned_len(n) ==
    WAndNot(WSub(WAdd(n, FromNat(PAGE_SIZE)), FromNat(1)),
            WSub(FromNat(PAGE_SIZE), FromNat(1)))

\* the alignment new() asks for
layout_align == PAGE_SIZE

\* len > MAX_ALLOCATION
too_large_ge(n) == WLe(MAX_ALLOCATION, n)

too_large(n) == WLt(MAX_ALLOCATION, n)

\* a new() that does not test the pointer alloc returned
UmaBuffer_new_unchecked(n) ==
    IF n = FromNat(0)
    THEN { [res |-> Err(Error_invalid_input("buffer length cannot be zero")),
            calls |-> <<>>] }
    ELSE IF too_large(n)
    THEN { [res |-> Err(Error_invalid_input(
                      "allocation size {len} exceeds maximum {MAX_ALLOCATION} bytes")),
            calls |-> <<>>] }
    ELSE LET lay == Layout_from_size_align(aligned_len(n), layout_align) IN
         IF lay.tag = "Err"
         THEN { [res |-> Err(Error_internal("invalid layout: {e}")), calls |-> <<>>] }
         ELSE { [res |-> Ok(UmaBuffer(p, n, lay.val)),
                 calls |-> << [layout |-> lay.val, ptr |-> p] >>] :
                p \in alloc(lay.val) }

\* UmaBuffer::new(len): its possible outcomes, one per answer of the allocator.
\* calls lists the requests made to the allocator with their answers.
UmaBuffer_new(n) ==
    IF n = FromNat(0)
    THEN { [res |-> Err(Error_invalid_input("buffer length cannot be zero")),
            calls |-> <<>>] }
    ELSE IF too_large(n)
    THEN { [res |-> Err(Error_invalid_input(
                      "allocation size {len} exceeds maximum {MAX_ALLOCATION} bytes")),
            calls |-> <<>>] }
    ELSE LET lay == Layout_from_size_align(aligned_len(n), layout_align) IN
         IF lay.tag = "Err"
         THEN { [res |-> Err(Error_internal("invalid layout: {e}")), calls |-> <<>>] }
         ELSE { [res |-> IF p = NullPtr
                         THEN Err(Error_internal(
                                "memory allocation failed for {aligned_len} bytes"))
                         ELSE Ok(UmaBuffer(p, n, lay.val)),
                 calls |-> << [layout |-> lay.val, ptr |-> p] >>] :
                p \in alloc(lay.val) }

\* a zero-fill that stops one byte short
zeroed_count_one_short(buffer) == WSub(buffer.len, FromNat(1))

\* the number of bytes zeroed() clears, from the start of the buffer
zeroed_count(buffer) == buffer.len

\* UmaBuffer::zeroed(len): the outcomes of new(len), the memory zero-filled on Ok
UmaBuffer_zeroed(n) ==
    { IF o.res.tag = "Err"
      THEN [res |-> o.res, calls |-> o.calls, mem |-> mem]
      ELSE [res |-> o.res, calls |-> o.calls,
            mem |-> Fill(mem, o.res.val.ptr,
                         WAdd(o.res.val.ptr, zeroed_count(o.res.val)), 0)] :
      o \in UmaBuffer_new(n) }

len(b) == b.len

allocated_size(b) == b.layout.size

is_aligned(b) == WMod(b.ptr, PAGE_SIZE) = 0

\* slice::from_raw_parts(self.ptr, self.len)
as_slice(b) == [ptr |-> b.ptr, len |-> b.len]

as_mut_slice_allocated(b) == [ptr |-> b.ptr, len |-> b.layout.size]

\* slice::from_raw_parts_mut(self.ptr, self.len)
as_mut_slice(b) == [ptr |-> b.ptr, len |-> b.len]

\* dst[..Len(src)].copy_from_slice(src) on the memory
RECURSIVE CopyBytes(_, _, _)
CopyBytes(m, dst, src) ==
    IF src = <<>> THEN m
    ELSE CopyBytes(Fill(m, dst, WAdd(dst, FromNat(1)), Head(src)),
                   WAdd(dst, FromNat(1)), Tail(src))

\* src.len() > self.len
src_too_long_ge(b, src) == WLe(b.len, FromNat(Len(src)))

src_too_long(b, src) == WLt(b.len, FromNat(Len(src)))

\* a copy_from_slice that writes the first byte before it checks the length
copy_from_slice_writes_first(b, src) ==
    IF src_too_long(b, src)
    THEN [res |-> Err(Error_invalid_input(
                    "source length {} exceeds buffer length {}")),
          mem |-> CopyBytes(mem, as_mut_slice(b).ptr, << Head(src) >>)]
    ELSE [res |-> Ok("unit"), mem |-> CopyBytes(mem, as_mut_slice(b).ptr, src)]

\* UmaBuffer::copy_from_slice(&mut self, src)
copy_from_slice(b, src) ==
    IF src_too_long(b, src)
    THEN [res |-> Err(Error_invalid_input(
                    "source length {} exceeds buffer length {}")),
          mem |-> mem]
    ELSE [res |-> Ok("unit"), mem |-> CopyBytes(mem, as_mut_slice(b).ptr, src)]

drop_layout_from_len(b) == [size |-> b.len, align |-> PAGE_SIZE]

\* the layout Drop hands to dealloc
drop_layout(b) == b.layout

-----------------------------------------------------------------------------
(* Actions on buffers *)

FreeSlot(i) == bufs[i].st = "none" /\ \A j \in 1..(i - 1) : bufs[j].st # "none"

\* let b = UmaBuffer::new(len) / UmaBuffer::zeroed(len)
Create(i, op, n, o) ==
    /\ ret' = [op |-> op, slot |-> i, len |-> n, res |-> o.res, calls |-> o.calls]
    /\ IF o.res.tag = "Ok"
       THEN /\ bufs' = [bufs EXCEPT ![i] = o.res.val]
            /\ reqLen' = [reqLen EXCEPT ![i] = n]
            /\ blocks' = blocks \cup
                 { [ptr |-> c.ptr, layout |-> c.layout] :
                     c \in { o.calls[k] : k \in 1..Len(o.calls) } }
       ELSE UNCHANGED <<bufs, reqLen, blocks>>
    /\ UNCHANGED <<deallocs, badDealloc, writes, ioVars, query>>

New(i) ==
    /\ FreeSlot(i)
    /\ \E n \in LenChoices : \E o \in UmaBuffer_new(n) :
         Create(i, "new", n, o) /\ UNCHANGED mem

Zeroed(i) ==
    /\ FreeSlot(i)
    /\ \E n \in ZeroedLenChoices : \E o \in UmaBuffer_zeroed(n) :
         Create(i, "zeroed", n, [res |-> o.res, calls |-> o.calls]) /\ mem' = o.mem

\* buffer.as_mut_slice()[idx] = v; an index outside the slice panics and
\* writes nothing
Write(i) ==
    /\ Live(i)
    /\ writes < MaxWrites
    /\ \E idx \in IdxChoices, v \in Byte :
         LET s == as_mut_slice(bufs[i]) IN
         /\ WLt(idx, s.len)
         /\ mem' = Fill(mem, WAdd(s.ptr, idx), WAdd(s.ptr, WAdd(idx, FromNat(1))), v)
         /\ ret' = [op |-> "write", slot |-> i, idx |-> idx, v |-> v]
    /\ writes' = writes + 1
    /\ UNCHANGED <<bufs, reqLen, blocks, deallocs, badDealloc, ioVars, query>>

\* buffer.copy_from_slice(&src)
Copy(i) ==
    /\ Live(i)
    /\ writes < MaxWrites
    /\ \E src \in SrcChoices :
         LET o == copy_from_slice(bufs[i], src) IN
         /\ mem' = o.mem
         /\ ret' = [op |-> "copy", slot |-> i, src |-> src, res |-> o.res]
    /\ writes' = writes + 1
    /\ UNCHANGED <<bufs, reqLen, blocks, deallocs, badDealloc, ioVars, query>>

\* let c = b: the value moves to another place, the old place is not dropped
Move(i, j) ==
    /\ Live(i)
    /\ FreeSlot(j)
    /\ bufs' = [bufs EXCEPT ![j] = bufs[i], ![i] = [NoBuf EXCEPT !.st = "moved"]]
    /\ reqLen' = [reqLen EXCEPT ![j] = reqLen[i], ![i] = FromNat(0)]
    /\ ret' = [op |-> "move", slot |-> j]
    /\ UNCHANGED <<blocks, mem, deallocs, badDealloc, writes, ioVars, query>>

\* Drop for UmaBuffer: dealloc(self.ptr, self.layout).  hit is the live block
\* at that address; a dealloc that names no live block or another layout is
\* undefined, and may or may not free what it hit.
Drop(i) ==
    /\ Live(i)
    /\ LET p   == bufs[i].ptr
           lay == drop_layout(bufs[i])
           hit == { b \in blocks : b.ptr = p }
       IN /\ deallocs' = deallocs + 1
          /\ IF hit = { [ptr |-> p, layout |-> lay] }
             THEN blocks' = blocks \ hit /\ UNCHANGED badDealloc
             ELSE blocks' \in { blocks, blocks \ hit } /\ badDealloc' = TRUE
    /\ bufs' = [bufs EXCEPT ![i] = [NoBuf EXCEPT !.st = "dropped"]]
    /\ reqLen' = [reqLen EXCEPT ![i] = FromNat(0)]
    /\ ret' = [op |-> "drop", slot |-> i]
    /\ UNCHANGED <<mem, writes, ioVars, query>>

\* what the memory holds before the first allocation is any one byte value
InitUma(residual) ==
    /\ bufs = [i \in BufIds |-> NoBuf]
    /\ reqLen = [i \in BufIds |-> FromNat(0)]
    /\ blocks = {}
    /\ \E v \in residual : mem = { [lo |-> FromNat(0), hi |-> HeapTop, v |-> v] }
    /\ deallocs = 0
    /\ badDealloc = FALSE
    /\ ret = [op |-> "init"]
    /\ writes = 0

-----------------------------------------------------------------------------
(* Option, f64 and CoreFoundation values *)

None == [some |-> FALSE]

Some(x) == [some |-> TRUE, v |-> x]

unwrap_or(o, d) == IF o.some THEN o.v ELSE d

\* An f64 is a finite multiple of 1/2 (h halves), NaN, or a value of
\* magnitude 2^31 or more, infinite or not (h is its sign).
Fin(h) == [cls |-> "fin", h |-> h]

NaN == [cls |-> "nan", h |-> 0]

Big(sgn) == [cls |-> "big", h |-> sgn]

\* the f64 n.0
F(n) == Fin(2 * n)

F64Key(a) == IF a.cls = "big" THEN a.h * 2^30 ELSE a.h

\* a < b and a <= b on f64: false when either is NaN
F64Lt(a, b) == a.cls # "nan" /\ b.cls # "nan" /\ F64Key(a) < F64Key(b)

F64Le(a, b) == a.cls # "nan" /\ b.cls # "nan" /\ F64Key(a) <= F64Key(b)

\* a value of a CFDictionary entry: dict.find(key) is None for CFAbsent
CFAbsent == [t |-> "absent", num |-> F(0)]

CFStringValue == [t |-> "string", num |-> F(0)]

CFNumber(x) == [t |-> "number", num |-> x]

\* CFNumber::to_i32: Some only when the number is an integer in i32's range
CFNumber_to_i32(num) ==
    IF num.cls = "fin" /\ num.h % 2 = 0 THEN Some(num.h \div 2) ELSE None

\* CFNumber::to_f64: the numbers of this model all convert exactly
CFNumber_to_f64(num) == Some(num)

\* u32::try_from(v).ok() for an i32 v
u32_try_from(v) == IF v >= 0 THEN Some(v) ELSE None

-----------------------------------------------------------------------------
(* ffi/iokit.rs *)

KERN_SUCCESS == 0

AFTERBURNER_SERVICE_NAMES ==
    << "AppleProResAccelerator", "AppleAfterburner", "AFBAccelerator" >>

ServiceNames == { AFTERBURNER_SERVICE_NAMES[k] : k \in 1..Len(AFTERBURNER_SERVICE_NAMES) }

\* the io_service_t the registry hands out for a class name it holds: never 0
HandleOf(name) == CHOOSE k \in 1..Len(AFTERBURNER_SERVICE_NAMES) :
                      AFTERBURNER_SERVICE_NAMES[k] = name

Handles == { HandleOf(n) : n \in ServiceNames }

\* IOServiceGetMatchingService(0, matching): 0 when no service matches
IOServiceGetMatchingService(name) ==
    IF name \in registry THEN HandleOf(name) ELSE 0

Error_iokit(code, message) == [kind |-> "IoKit", code |-> code, message |-> message]

AfterburnerService(service) == [service |-> service]

\* find_service_by_name(name).  nullMatch holds the names for which
\* IOServiceMatching returns null this time.  CString::new cannot fail: the
\* names hold no NUL.  lookup records what was asked of IOKit.
find_service_by_name(name, nullMatch) ==
    IF name \in nullMatch
    THEN [res |-> None, lookup |-> [name |-> name, matching |-> "null", service |-> 0]]
    ELSE LET service == IOServiceGetMatchingService(name) IN
         [res |-> IF service = 0 THEN None ELSE Some(AfterburnerService(service)),
          lookup |-> [name |-> name, matching |-> "dict", service |-> service]]

\* the for loop of find_afterburner_service, from the k-th name on
RECURSIVE find_from(_, _)
find_from(k, nullMatch) ==
    IF k > Len(AFTERBURNER_SERVICE_NAMES) THEN [res |-> None, lookups |-> <<>>]
    ELSE LET r == find_service_by_name(AFTERBURNER_SERVICE_NAMES[k], nullMatch) IN
         IF r.res.some THEN [res |-> r.res, lookups |-> << r.lookup >>]
         ELSE LET rest == find_from(k + 1, nullMatch) IN
              [res |-> rest.res, lookups |-> << r.lookup >> \o rest.lookups]

\* a loop that goes on after a match and keeps the last one
RECURSIVE find_last_from(_, _)
find_last_from(k, nullMatch) ==
    IF k > Len(AFTERBURNER_SERVICE_NAMES) THEN [res |-> None, lookups |-> <<>>]
    ELSE LET r == find_service_by_name(AFTERBURNER_SERVICE_NAMES[k], nullMatch)
             rest == find_last_from(k + 1, nullMatch)
         IN [res |-> IF rest.res.some THEN rest.res ELSE r.res,
             lookups |-> << r.lookup >> \o rest.lookups]

find_afterburner_service_keeps_last(nullMatch) == find_last_from(1, nullMatch)

find_afterburner_service(nullMatch) == find_from(1, nullMatch)

drop_service_leaks(s) == <<>>

\* Drop for AfterburnerService: the handles it passes to IOObjectRelease
drop_service(s) == IF s.service # 0 THEN << s.service >> ELSE <<>>

PropertyKeys ==
    { "StreamsActive", "StreamsCapacity", "Utilization", "ThroughputFPS",
      "Temperature", "PowerWatts" }

get_u32_property(dict, key) ==
    LET value == dict[key] IN
    IF value.t = "absent" THEN None
    ELSE IF value.t # "number" THEN None
    ELSE LET i == CFNumber_to_i32(value.num) IN
         IF i.some THEN u32_try_from(i.v) ELSE None

\* a lookup that answers 0.0 for a missing key
get_f64_property_zero_if_absent(dict, key) ==
    LET value == dict[key] IN
    IF value.t = "absent" THEN Some(F(0))
    ELSE IF value.t # "number" THEN None
    ELSE CFNumber_to_f64(value.num)

get_f64_property(dict, key) ==
    LET value == dict[key] IN
    IF value.t = "absent" THEN None
    ELSE IF value.t # "number" THEN None
    ELSE CFNumber_to_f64(value.num)

\* a parse whose capacity default is 0
parse_afterburner_properties_zero_capacity(properties) ==
    [streams_active |-> unwrap_or(get_u32_property(properties, "StreamsActive"), 0),
     streams_capacity |-> unwrap_or(get_u32_property(properties, "StreamsCapacity"), 0),
     utilization |-> unwrap_or(get_f64_property(properties, "Utilization"), F(0)),
     throughput_fps |-> unwrap_or(get_f64_property(properties, "ThroughputFPS"), F(0)),
     temperature |-> get_f64_property(properties, "Temperature"),
     power |-> get_f64_property(properties, "PowerWatts")]

parse_afterburner_properties(properties) ==
    [streams_active |-> unwrap_or(get_u32_property(properties, "StreamsActive"), 0),
     streams_capacity |-> unwrap_or(get_u32_property(properties, "StreamsCapacity"), 23),
     utilization |-> unwrap_or(get_f64_property(properties, "Utilization"), F(0)),
     throughput_fps |-> unwrap_or(get_f64_property(properties, "ThroughputFPS"), F(0)),
     temperature |-> get_f64_property(properties, "Temperature"),
     power |-> get_f64_property(properties, "PowerWatts")]

\* What IORegistryEntryCreateCFProperties answers: its status, and the
\* dictionary it stored in properties_ref, or null.
Answer(status, null, dict) == [status |-> status, null |-> null, dict |-> dict]

\* a get_properties that tests the pointer before the status
get_properties_null_first(s, ans) ==
    IF ans.null
    THEN Err(Error_iokit(0, "registry properties returned null"))
    ELSE IF ans.status # KERN_SUCCESS
    THEN Err(Error_iokit(ans.status, "failed to get registry properties"))
    ELSE Ok(ans.dict)

\* get_properties(&self) given IOKit's answer
get_properties(s, ans) ==
    IF ans.status # KERN_SUCCESS
    THEN Err(Error_iokit(ans.status, "failed to get registry properties"))
    ELSE IF ans.null
    THEN Err(Error_iokit(0, "registry properties returned null"))
    ELSE Ok(ans.dict)

\* a get_stats that fails when a property is missing
get_stats_requires_all(s, ans) ==
    LET properties == get_properties(s, ans) IN
    IF properties.tag = "Err" THEN properties
    ELSE IF \E k \in PropertyKeys : properties.val[k].t = "absent"
    THEN Err(Error_iokit(0, "missing property"))
    ELSE Ok(parse_afterburner_properties(properties.val))

\* get_stats(&self) given IOKit's answer
get_stats(s, ans) ==
    LET properties == get_properties(s, ans) IN
    IF properties.tag = "Err" THEN properties
    ELSE Ok(parse_afterburner_properties(properties.val))

-----------------------------------------------------------------------------
(* afterburner.rs *)

\* f64::clamp(min, max)
f64_clamp(x, min, max) ==
    LET y == IF F64Lt(x, min) THEN min ELSE x IN
    IF F64Lt(max, y) THEN max ELSE y

\* f64::max: the other operand when one is NaN
f64_max(x, y) ==
    IF x.cls = "nan" THEN y ELSE IF y.cls = "nan" THEN x
    ELSE IF F64Lt(x, y) THEN y ELSE x

\* (lo..hi).contains(&t)
range_contains(lo, hi, t) == F64Le(lo, t) /\ F64Lt(t, hi)

convert_raw_stats(raw) ==
    [streams_active |-> raw.streams_active,
     streams_capacity |-> raw.streams_capacity,
     utilization_percent |-> f64_clamp(raw.utilization, F(0), F(100)),
     throughput_fps |-> f64_max(raw.throughput_fps, F(0)),
     temperature_celsius |->
        IF raw.temperature.some /\ range_contains(F(0), F(150), raw.temperature.v)
        THEN raw.temperature ELSE None,
     power_watts |->
        IF raw.power.some /\ range_contains(F(0), F(500), raw.power.v)
        THEN raw.power ELSE None,
     codec_breakdown |-> {}]

\* (f64::from(a) / f64::from(c)) * 100.0 for u32 a and c > 0, held as the
\* quotient num / den it rounds: the order of two such values, and of one
\* against 100.0, is the order of the quotients
Quotient(num, den) == [cls |-> "quotient", num |-> num, den |-> den]

\* a capacity_used_percent without the test for capacity 0
capacity_used_percent_unguarded(s) ==
    Quotient(100 * s.streams_active, s.streams_capacity)

\* AfterburnerStats::capacity_used_percent(&self)
capacity_used_percent(s) ==
    IF s.streams_capacity = 0 THEN F(0)
    ELSE Quotient(100 * s.streams_active, s.streams_capacity)

\* an is_temperature_safe that counts 100.0 as safe
is_temperature_safe_inclusive(s) ==
    IF s.temperature_celsius.some
    THEN Some(F64Le(s.temperature_celsius.v, F(100)))
    ELSE None

\* AfterburnerStats::is_temperature_safe(&self)
is_temperature_safe(s) ==
    IF s.temperature_celsius.some
    THEN Some(F64Lt(s.temperature_celsius.v, F(100)))
    ELSE None

\* a stats that answers the snapshot of an empty property set when the
\* fetch fails
stats_default_on_error(mon, ans) ==
    LET raw == get_stats(mon.service, ans) IN
    IF raw.tag = "Err" THEN Ok(convert_raw_stats(
                                parse_afterburner_properties([k \in PropertyKeys |-> CFAbsent])))
    ELSE Ok(convert_raw_stats(raw.val))

\* AfterburnerMonitor::stats(&self) given IOKit's answer
stats(mon, ans) ==
    LET raw == get_stats(mon.service, ans) IN
    IF raw.tag = "Err" THEN raw ELSE Ok(convert_raw_stats(raw.val))

-----------------------------------------------------------------------------
(* Actions on monitors *)

MaxMons == 2      \* monitors ever created

MonIds == 1..MaxMons

NoMon == [st |-> "none", service |-> AfterburnerService(0)]

LiveMon(m) == mons[m].st = "live"

FreeMon(m) == mons[m].st = "none" /\ \A j \in 1..(m - 1) : mons[j].st # "none"

Count(seq, x) == Cardinality({ k \in 1..Len(seq) : seq[k] = x })

\* the reference counts after the lookups: each service handed out is a reference
Acquire(u, lookups) ==
    [h \in Handles |-> u[h] + Cardinality({ k \in 1..Len(lookups) : lookups[k].service = h })]

\* the reference counts after IOObjectRelease on each handle of rels
Release(u, rels) ==
    [h \in Handles |-> IF Count(rels, h) > u[h] THEN 0 ELSE u[h] - Count(rels, h)]

BadRelease(u, rels) ==
    \/ Count(rels, 0) > 0
    \/ \E h \in Handles : Count(rels, h) > u[h]

\* statuses other than KERN_SUCCESS: KERN_FAILURE and kIOReturnError
FailCodes == { 5, -536870212 }

EmptyDict == [k \in PropertyKeys |-> CFAbsent]

FullDict ==
    [k \in PropertyKeys |->
        CASE k = "StreamsActive" -> CFNumber(F(5))
          [] k = "StreamsCapacity" -> CFNumber(F(23))
          [] k = "Utilization" -> CFNumber(F(45))
          [] k = "ThroughputFPS" -> CFNumber(F(120))
          [] k = "Temperature" -> CFNumber(F(65))
          [] k = "PowerWatts" -> CFNumber(F(25))]

\* answers of IOKit to the property fetch of a monitor
FewAnswers ==
    { Answer(KERN_SUCCESS, FALSE, d) :
        d \in { EmptyDict, FullDict, [FullDict EXCEPT !["Temperature"] = CFStringValue] } }
    \cup { Answer(KERN_SUCCESS, TRUE, EmptyDict) }
    \cup { Answer(c, TRUE, EmptyDict) : c \in FailCodes }

\* property values: missing, of the wrong type, a count, a negative number
ValueChoices == { CFAbsent, CFStringValue, CFNumber(F(5)), CFNumber(F(-1)) }

AllDicts == [PropertyKeys -> ValueChoices]

\* answers of IOKit to a property fetch on its own
AllAnswers ==
    { Answer(KERN_SUCCESS, FALSE, d) : d \in AllDicts }
    \cup { Answer(KERN_SUCCESS, TRUE, EmptyDict) }
    \cup { Answer(c, n, EmptyDict) : c \in FailCodes, n \in BOOLEAN }

\* AfterburnerMonitor::new() and the service search it makes
AfterburnerMonitor_new(nullMatch) ==
    LET f == find_afterburner_service(nullMatch) IN
    [res |-> IF f.res.some THEN Some([service |-> f.res.v]) ELSE None,
     lookups |-> f.lookups]

\* an is_available() that asks for the first class name only
is_available_first_name(nullMatch) ==
    LET r == find_service_by_name(AFTERBURNER_SERVICE_NAMES[1], nullMatch) IN
    [res |-> r.res.some, found |-> r.res, lookups |-> << r.lookup >>]

\* an is_available() that forgets the service it found instead of dropping it
is_available_forgets(nullMatch) ==
    LET f == find_afterburner_service(nullMatch) IN
    [res |-> f.res.some, found |-> None, lookups |-> f.lookups]

\* AfterburnerMonitor::is_available(): find_afterburner_service().is_some();
\* found is the temporary it drops
is_available(nullMatch) ==
    LET f == find_afterburner_service(nullMatch) IN
    [res |-> f.res.some, found |-> f.res, lookups |-> f.lookups]

\* What a search op remembers of the call before it, when that call was the
\* other search (new() before is_available(), or the reverse) and the
\* hardware did not change in between: whether IOServiceMatching failed for
\* the same names, and whether that call found a service.
NoCall == [call |-> FALSE, same |-> FALSE, found |-> FALSE]

LastSearch(op, nullMatch) ==
    IF ioRet.op \in {"new", "is_available"} /\ ioRet.op # op
    THEN [call |-> TRUE, same |-> ioRet.nullMatch = nullMatch, found |-> ioRet.res.some]
    ELSE NoCall

\* let monitor = AfterburnerMonitor::new()
MonitorNew(m) ==
    /\ FreeMon(m)
    /\ \E nullMatch \in SUBSET ServiceNames :
         LET f == AfterburnerMonitor_new(nullMatch) IN
         /\ urefs' = Acquire(urefs, f.lookups)
         /\ mons' = IF f.res.some
                    THEN [mons EXCEPT ![m] = [st |-> "live", service |-> f.res.v.service]]
                    ELSE mons
         /\ ioRet' = [op |-> "new", slot |-> m, nullMatch |-> nullMatch,
                      lookups |-> f.lookups,
                      res |-> IF f.res.some THEN Some(f.res.v.service) ELSE None,
                      prev |-> LastSearch("new", nullMatch)]
    /\ UNCHANGED <<registry, relCount, badRelease, umaVars, query>>

\* AfterburnerMonitor::is_available(): the service found is a temporary,
\* dropped before the call returns
IsAvailable ==
    /\ \E nullMatch \in SUBSET ServiceNames :
         LET f == is_available(nullMatch)
             rels == IF f.found.some THEN drop_service(f.found.v) ELSE <<>>
             got == Acquire(urefs, f.lookups)
         IN /\ urefs' = Release(got, rels)
            /\ badRelease' = (badRelease \/ BadRelease(got, rels))
            /\ ioRet' = [op |-> "is_available", nullMatch |-> nullMatch,
                         lookups |-> f.lookups, res |-> f.found,
                         available |-> f.res,
                         prev |-> LastSearch("is_available", nullMatch)]
    /\ UNCHANGED <<registry, mons, relCount, umaVars, query>>

\* a get_properties that releases the service once it has fetched
get_properties_calls_then_release(s) ==
    << [fn |-> "IORegistryEntryCreateCFProperties", entry |-> s.service],
       [fn |-> "IOObjectRelease", entry |-> s.service] >>

\* the native calls get_properties(&self) makes, in order
get_properties_calls(s) ==
    << [fn |-> "IORegistryEntryCreateCFProperties", entry |-> s.service] >>

\* the native calls name(&self) makes, in order
name_calls(s) ==
    << [fn |-> "IORegistryEntryGetName", entry |-> s.service] >>

\* the handles of calls that IOObjectRelease is called on, and the others
Entries(calls, release) ==
    LET sel == SelectSeq(calls, LAMBDA c : (c.fn = "IOObjectRelease") = release)
    IN [k \in 1..Len(sel) |-> sel[k].entry]

\* IORegistryEntryGetName's answers: the status, and whether the name
\* written to the buffer is UTF-8
NameAnswers ==
    { [result |-> KERN_SUCCESS, utf8 |-> TRUE, name |-> "AppleAfterburner"],
      [result |-> KERN_SUCCESS, utf8 |-> FALSE, name |-> ""],
      [result |-> 5, utf8 |-> FALSE, name |-> ""] }

\* AfterburnerService::name(&self) given IOKit's answer
name(s, ans) ==
    IF ans.result # KERN_SUCCESS THEN None
    ELSE IF ans.utf8 THEN Some(ans.name) ELSE None

\* What a call on a monitor's service remembers of the call before it, when
\* that was a call on the same monitor's service: whether it was a stats()
\* that failed, and the handle it used.
LastCall(m) ==
    IF ioRet.op \in {"stats", "name"} /\ ioRet.slot = m
    THEN [call |-> TRUE,
          failed |-> (ioRet.op = "stats" /\ ioRet.res.tag = "Err"),
          handle |-> ioRet.fetches[1]]
    ELSE [call |-> FALSE, failed |-> FALSE, handle |-> 0]

\* monitor.stats(): one property fetch on the monitor's handle
Stats(m) ==
    /\ LiveMon(m)
    /\ \E ans \in FewAnswers :
         LET calls == get_properties_calls(mons[m].service)
             rels == Entries(calls, TRUE)
         IN /\ urefs' = Release(urefs, rels)
            /\ badRelease' = (badRelease \/ BadRelease(urefs, rels))
            /\ ioRet' = [op |-> "stats", slot |-> m, ans |-> ans,
                         fetches |-> Entries(calls, FALSE),
                         res |-> stats(mons[m], ans),
                         before |-> LastCall(m)]
    /\ UNCHANGED <<registry, mons, relCount, umaVars, query>>

\* the service of a live monitor is asked its name
Name(m) ==
    /\ LiveMon(m)
    /\ \E ans \in NameAnswers :
         LET calls == name_calls(mons[m].service)
             rels == Entries(calls, TRUE)
         IN /\ urefs' = Release(urefs, rels)
            /\ badRelease' = (badRelease \/ BadRelease(urefs, rels))
            /\ ioRet' = [op |-> "name", slot |-> m, ans |-> ans,
                         fetches |-> Entries(calls, FALSE),
                         res |-> name(mons[m].service, ans),
                         before |-> LastCall(m)]
    /\ UNCHANGED <<registry, mons, relCount, umaVars, query>>

\* the monitor goes out of scope: Drop for AfterburnerService runs
DropMonitor(m) ==
    /\ LiveMon(m)
    /\ LET rels == drop_service(mons[m].service) IN
         /\ urefs' = Release(urefs, rels)
         /\ relCount' = [relCount EXCEPT ![m] = @ + Len(rels)]
         /\ badRelease' = (badRelease \/ BadRelease(urefs, rels))
    /\ mons' = [mons EXCEPT ![m].st = "dropped"]
    /\ ioRet' = [op |-> "drop", slot |-> m,
                 after |-> IF ioRet.op = "stats" /\ ioRet.slot = m
                           THEN ioRet.res.tag ELSE "none"]
    /\ UNCHANGED <<registry, umaVars, query>>

\* hardware comes or goes
Hotplug ==
    /\ \E S \in SUBSET ServiceNames : S # registry /\ registry' = S
    /\ ioRet' = [op |-> "hotplug"]
    /\ UNCHANGED <<mons, urefs, relCount, badRelease, umaVars, query>>

\* service.get_stats() on its own, for any answer of IOKit
GetStats ==
    /\ query.op = "init"
    /\ \E ans \in AllAnswers :
         query' = [op |-> "get_stats", ans |-> ans,
                   res |-> get_stats(AfterburnerService(1), ans)]
    /\ UNCHANGED <<umaVars, ioVars>>

\* raw readings: on, inside and outside every boundary of the projection,
\* with halves next to the boundaries, NaN and values beyond 2^31
UtilizationChoices == { F(-10), F(0), F(45), F(100), F(150), NaN, Big(1), Big(-1) }

ThroughputChoices == { F(-10), F(0), F(120), NaN, Big(1) }

TemperatureChoices ==
    { None } \cup
    { Some(x) : x \in { F(-10), F(0), Fin(1), F(65), Fin(299), F(150), F(200), NaN } }

PowerChoices ==
    { None } \cup
    { Some(x) : x \in { F(-5), F(0), Fin(1), F(25), Fin(999), F(500), F(600), NaN, Big(1) } }

RawChoices ==
    [streams_active : {0, 5}, streams_capacity : {23},
     utilization : UtilizationChoices, throughput_fps : ThroughputChoices,
     temperature : TemperatureChoices, power : PowerChoices]

\* convert_raw_stats(&raw) on its own, for any raw snapshot
Convert ==
    /\ query.op = "init"
    /\ \E raw \in RawChoices :
         query' = [op |-> "convert", raw |-> raw, res |-> convert_raw_stats(raw)]
    /\ UNCHANGED <<umaVars, ioVars>>

\* numbers a property may hold: zero, counts, a negative, a fraction (5.5),
\* NaN and a value of 2^31 or more
NumberChoices == { F(0), F(5), F(1000000), F(-1), Fin(11), NaN, Big(1) }

PropertyChoices == { CFAbsent, CFStringValue } \cup { CFNumber(x) : x \in NumberChoices }

\* property sets that are empty, full or wrongly typed but for one key
ParseDicts ==
    { [base EXCEPT ![k] = v] :
        base \in { EmptyDict, FullDict, [key \in PropertyKeys |-> CFStringValue] },
        k \in PropertyKeys, v \in PropertyChoices }

\* parse_afterburner_properties(&properties) on its own
Parse ==
    /\ query.op = "init"
    /\ \E properties \in ParseDicts :
         query' = [op |-> "parse", dict |-> properties,
                   res |-> parse_afterburner_properties(properties)]
    /\ UNCHANGED <<umaVars, ioVars>>

\* stream counts of a snapshot: none, below, at and above the nominal
\* capacity, and a large count
CountChoices == { 0, 1, 5, 22, 23, 24, 1000000 }

\* temperatures of a snapshot: none, or a reading on, next to or away from
\* the safety threshold
RecordedTemperatureChoices ==
    { None } \cup
    { Some(x) : x \in { F(-10), F(0), F(65), Fin(199), F(100), Fin(201), F(200), Big(1) } }

StatsChoices ==
    [streams_active : CountChoices, streams_capacity : CountChoices,
     temperature_celsius : RecordedTemperatureChoices]

\* the derived queries of a snapshot
Derive ==
    /\ query.op = "init"
    /\ \E s \in StatsChoices :
         query' = [op |-> "derived", stats |-> s,
                   percent |-> capacity_used_percent(s),
                   safe |-> is_temperature_safe(s)]
    /\ UNCHANGED <<umaVars, ioVars>>

\* The remaining constructors of error.rs
Error_not_available(subsystem) == [kind |-> "NotAvailable", subsystem |-> subsystem]

Error_metal(message) == [kind |-> "Metal", message |-> message]

Error_coreml(message) == [kind |-> "CoreMl", message |-> message]

Error_security(code) == [kind |-> "Security", code |-> code]

Error_timeout(duration_ms) == [kind |-> "Timeout", duration_ms |-> duration_ms]

Error_permission_denied(operation) == [kind |-> "PermissionDenied", operation |-> operation]

Error_not_found(resource) == [kind |-> "NotFound", resource |-> resource]

Subsystem == { "Afterburner", "NeuralEngine", "Metal", "SecureEnclave", "UnifiedMemory" }

\* Display for Subsystem
Subsystem_to_string(s) ==
    CASE s = "Afterburner" -> "Afterburner FPGA"
      [] s = "NeuralEngine" -> "Neural Engine"
      [] s = "Metal" -> "Metal GPU"
      [] s = "SecureEnclave" -> "Secure Enclave"
      [] s = "UnifiedMemory" -> "Unified Memory"

\* a Display that prints the payload of a Metal error with no prefix
to_string_bare_metal(e) ==
    CASE e.kind = "NotAvailable" ->
            "hardware not available: " \o Subsystem_to_string(e.subsystem)
      [] e.kind = "IoKit" ->
            "IOKit error (code " \o ToString(e.code) \o "): " \o e.message
      [] e.kind = "Metal" -> e.message
      [] e.kind = "CoreMl" -> "CoreML error: " \o e.message
      [] e.kind = "Security" ->
            "Security framework error (code " \o ToString(e.code) \o ")"
      [] e.kind = "InvalidInput" -> "invalid input: " \o e.reason
      [] e.kind = "Timeout" ->
            "operation timed out after " \o ToString(e.duration_ms) \o "ms"
      [] e.kind = "PermissionDenied" -> "permission denied: " \o e.operation
      [] e.kind = "NotFound" -> "resource not found: " \o e.resource
      [] e.kind = "Internal" -> "internal error: " \o e.details

\* Display for Error: the #[error("...")] format of each variant
to_string(e) ==
    CASE e.kind = "NotAvailable" ->
            "hardware not available: " \o Subsystem_to_string(e.subsystem)
      [] e.kind = "IoKit" ->
            "IOKit error (code " \o ToString(e.code) \o "): " \o e.message
      [] e.kind = "Metal" -> "Metal error: " \o e.message
      [] e.kind = "CoreMl" -> "CoreML error: " \o e.message
      [] e.kind = "Security" ->
            "Security framework error (code " \o ToString(e.code) \o ")"
      [] e.kind = "InvalidInput" -> "invalid input: " \o e.reason
      [] e.kind = "Timeout" ->
            "operation timed out after " \o ToString(e.duration_ms) \o "ms"
      [] e.kind = "PermissionDenied" -> "permission denied: " \o e.operation
      [] e.kind = "NotFound" -> "resource not found: " \o e.resource
      [] e.kind = "Internal" -> "internal error: " \o e.details

\* an error_code that knows the IoKit variant only
error_code_iokit_only(e) ==
    IF e.kind = "IoKit" THEN Some(e.code) ELSE None

\* Error::error_code(&self)
error_code(e) ==
    IF e.kind \in {"IoKit", "Security"} THEN Some(e.code) ELSE None

\* i32 codes: zero, small ones, two IOKit statuses, and both ends of i32
CodeChoices ==
    { 0, 1, -1, 5, -536870212, -536870206, 2147483647, -2147483647 - 1 }

\* string payloads: empty, one character, the bare word, and messages
TextChoices ==
    { "", "e", "error", "Error", "test", "buffer length cannot be zero",
      "failed to get registry properties" }

\* u64 durations that fit the model's integers
DurationChoices == { 0, 1, 1000, 30000 }

ErrorChoices ==
    { Error_not_available(s) : s \in Subsystem }
    \cup { Error_iokit(c, m) : c \in CodeChoices, m \in TextChoices }
    \cup { Error_metal(m) : m \in TextChoices }
    \cup { Error_coreml(m) : m \in TextChoices }
    \cup { Error_security(c) : c \in CodeChoices }
    \cup { Error_invalid_input(m) : m \in TextChoices }
    \cup { Error_timeout(d) : d \in DurationChoices }
    \cup { Error_permission_denied(m) : m \in TextChoices }
    \cup { Error_not_found(m) : m \in TextChoices }
    \cup { Error_internal(m) : m \in TextChoices }

\* an error is built, asked for its code and printed
Report ==
    /\ query.op = "init"
    /\ \E e \in ErrorChoices :
         query' = [op |-> "error", err |-> e, code |-> error_code(e),
                   msg |-> to_string(e)]
    /\ UNCHANGED <<umaVars, ioVars>>

\* A u32 is four digits of base 2^8, lowest first; a product is held with
\* all its digits.
Digit == 2^8

U32(n) ==
    << n % Digit, (n \div Digit) % Digit, (n \div (Digit * Digit)) % Digit,
       n \div (Digit * Digit * Digit) >>

U32_MAX == << 255, 255, 255, 255 >>

\* the sum of the digit products of a and b that land on place p
RECURSIVE ColumnSum(_, _, _, _)
ColumnSum(a, b, p, i) ==
    IF i > Len(a) THEN 0
    ELSE (IF p - i + 1 \in 1..Len(b) THEN a[i] * b[p - i + 1] ELSE 0)
         + ColumnSum(a, b, p, i + 1)

RECURSIVE ProductFrom(_, _, _, _)
ProductFrom(a, b, p, carry) ==
    IF p > Len(a) + Len(b) THEN << >>
    ELSE LET t == ColumnSum(a, b, p, 1) + carry IN
         << t % Digit >> \o ProductFrom(a, b, p + 1, t \div Digit)

\* the product of a and b with no digit dropped
FullProduct(a, b) == ProductFrom(a, b, 1, 0)

\* the digits d hold a number above 1024
Above1024(d) ==
    \/ \E k \in 3..Len(d) : d[k] # 0
    \/ d[2] * Digit + d[1] > 1024

\* a * b on u32: the low 32 bits of the product; when the product does not
\* fit, a build with overflow checks panics and one without wraps
u32_mul(a, b) ==
    LET full == FullProduct(a, b)
        wrapped == SubSeq(full, 1, 4)
    IN { [panic |-> FALSE, v |-> wrapped] } \cup
       IF \E k \in 5..Len(full) : full[k] # 0
       THEN { [panic |-> TRUE, v |-> wrapped] }
       ELSE {}

\* threadgroup_size.0 * threadgroup_size.1 * threadgroup_size.2
tg_total(threadgroup_size) ==
    UNION { IF xy.panic THEN { xy } ELSE u32_mul(xy.v, threadgroup_size[3]) :
            xy \in u32_mul(threadgroup_size[1], threadgroup_size[2]) }

Panicked(message) == [tag |-> "Panic", message |-> message]

\* MetalCompute::dispatch(&self, shader, buffers, grid_size, threadgroup_size)
\* for a device of index device_index; a buffer is its device_index
dispatch(device_index, buffers, grid_size, threadgroup_size) ==
    IF \E k \in 1..3 : grid_size[k] = U32(0)
    THEN { Err(Error_invalid_input("grid size dimensions cannot be zero")) }
    ELSE { IF t.panic THEN Panicked("attempt to multiply with overflow")
           ELSE IF Above1024(t.v)
           THEN Err(Error_invalid_input("threadgroup size {tg_total} exceeds maximum 1024"))
           ELSE IF \E k \in 1..Len(buffers) : buffers[k] # device_index
           THEN Err(Error_invalid_input("buffer allocated on different device"))
           ELSE Ok("()") :
           t \in tg_total(threadgroup_size) }

\* threadgroup dimensions: around the limit of 1024 and around 2^32
DimChoices ==
    { U32(0), U32(1), U32(2), U32(32), U32(33), U32(1024), U32(65536),
      << 0, 0, 0, 128 >>, U32_MAX }

GridChoices ==
    { << U32(1), U32(1), U32(1) >>, << U32(64), U32(64), U32(1) >>,
      << U32(0), U32(1), U32(1) >>, << U32_MAX, U32(1), U32(1) >> }

\* buffers of this device (0) and of another
BufferChoices == { << >>, << 0 >>, << 0, 1 >> }

\* compute.dispatch(&shader, &buffers, grid_size, threadgroup_size)
Dispatch ==
    /\ query.op = "init"
    /\ \E grid_size \in GridChoices, buffers \in BufferChoices,
          x \in DimChoices, y \in DimChoices, z \in DimChoices :
         \E o \in dispatch(0, buffers, grid_size, << x, y, z >>) :
            query' = [op |-> "dispatch", grid_size |-> grid_size,
                      buffers |-> buffers, threadgroup_size |-> << x, y, z >>,
                      res |-> o]
    /\ UNCHANGED <<umaVars, ioVars>>

\* bytes.fold(0u8, wrapping_add): the sum of the bytes modulo 2^8
RECURSIVE fold_wrapping_add(_)
fold_wrapping_add(bytes) ==
    IF bytes = << >> THEN 0
    ELSE (fold_wrapping_add(Tail(bytes)) + Head(bytes)) % Digit

\* Signature::from_bytes(bytes)
Signature_from_bytes(bytes) ==
    IF bytes = << >>
    THEN Err(Error_invalid_input("signature cannot be empty"))
    ELSE IF Len(bytes) < 64 \/ Len(bytes) > 72
    THEN Err(Error_invalid_input("invalid P-256 signature length: {} (expected 64-72)"))
    ELSE Ok([bytes |-> bytes])

\* SecureEnclaveSigner::sign(&self, data) for a signer of the given tag
sign(tag, data) ==
    IF data = << >>
    THEN Err(Error_invalid_input("cannot sign empty data"))
    ELSE LET r_seed == fold_wrapping_add(data)
             s_seed == fold_wrapping_add(tag)
         IN Signature_from_bytes(
               << 48, 68, 2, 32 >> \o [k \in 1..32 |-> r_seed]
               \o << 2, 32 >> \o [k \in 1..32 |-> s_seed])

\* SecureEnclaveSigner::verify(&self, data, signature)
verify(tag, data, signature) ==
    IF data = << >>
    THEN Err(Error_invalid_input("cannot verify empty data"))
    ELSE LET expected == sign(tag, data) IN
         IF expected.tag = "Err" THEN expected
         ELSE Ok(expected.val.bytes = signature.bytes)

\* key tags, as bytes
TagChoices == { << 116, 97, 103 >>, << 107 >> }

\* data to sign: empty, single bytes, the same bytes in another order, and
\* bytes whose sum passes 255
DataChoices ==
    { << >>, << 1 >>, << 2 >>, << 3 >>, << 1, 2 >>, << 2, 1 >>, << 255, 2 >>,
      << 68, 97, 116, 97, 32, 65 >>, << 68, 97, 116, 97, 32, 66 >> }

\* sig1 = signer.sign(d1); sig2 = signer.sign(d2); signer.verify(d2, &sig1)
SignVerify ==
    /\ query.op = "init"
    /\ \E tag \in TagChoices, d1 \in DataChoices \ { << >> }, d2 \in DataChoices :
         LET sig1 == sign(tag, d1) IN
         query' = [op |-> "sign", tag |-> tag, d1 |-> d1, d2 |-> d2,
                   sig1 |-> sig1, sig2 |-> sign(tag, d2),
                   verified |-> verify(tag, d2, sig1.val)]
    /\ UNCHANGED <<umaVars, ioVars>>

InitIo ==
    /\ registry = {}
    /\ mons = [m \in MonIds |-> NoMon]
    /\ urefs = [h \in Handles |-> 0]
    /\ relCount = [m \in MonIds |-> 0]
    /\ badRelease = FALSE
    /\ ioRet = [op |-> "init"]

InitQuery == query = [op |-> "init"]

-----------------------------------------------------------------------------
(* Specifications *)

NextUma ==
    \/ \E i \in BufIds : New(i)
    \/ \E i \in BufIds : Zeroed(i)
    \/ \E i \in BufIds : Write(i)
    \/ \E i \in BufIds : Copy(i)
    \/ \E i, j \in BufIds : Move(i, j)
    \/ \E i \in BufIds : Drop(i)

NextIo ==
    \/ \E m \in MonIds : MonitorNew(m)
    \/ IsAvailable
    \/ \E m \in MonIds : Stats(m)
    \/ \E m \in MonIds : Name(m)
    \/ \E m \in MonIds : DropMonitor(m)
    \/ Hotplug

NextStats == GetStats

NextConvert == Convert

NextParse == Parse

NextDerived == Derive

NextError == Report

NextMetal == Dispatch

NextSigner == SignVerify

Init == InitUma(Byte) /\ InitIo /\ InitQuery

\* the memory starts zeroed: for the specifications that never touch it
InitZeroed == InitUma({0}) /\ InitIo /\ InitQuery

Next == NextUma \/ NextIo \/ NextStats \/ NextConvert \/ NextParse \/ NextDerived
        \/ NextError \/ NextMetal \/ NextSigner

\* the whole program
Spec == Init /\ [][Next]_vars

\* the buffer allocator alone
SpecUma == Init /\ [][NextUma]_vars

\* the monitor alone
SpecIoKit == InitZeroed /\ [][NextIo]_vars

\* property fetches alone
SpecStats == InitZeroed /\ [][NextStats]_vars

\* projections alone
SpecConvert == InitZeroed /\ [][NextConvert]_vars

\* property parsing alone
SpecParse == InitZeroed /\ [][NextParse]_vars

\* derived queries alone
SpecDerived == InitZeroed /\ [][NextDerived]_vars

\* errors alone
SpecError == InitZeroed /\ [][NextError]_vars

\* compute dispatches alone
SpecMetal == InitZeroed /\ [][NextMetal]_vars

\* signing alone
SpecSigner == InitZeroed /\ [][NextSigner]_vars

-----------------------------------------------------------------------------
(* Properties of the buffer allocator *)

ViewEnd(b) == WAdd(b.ptr, b.len)

\* the smallest multiple of PAGE_SIZE that is >= n, for n below 2^35
SmallestPageMultiple(n) == W(n.hi + (IF n.lo > 0 THEN 1 ELSE 0), 0)

\* C1: at every moment of its life a buffer made by new(L) has 1 <= L <=
\* MAX_ALLOCATION, len() = L, allocated_size() the smallest multiple of 4096
\* that is >= L, and a start address that is a multiple of 4096.
C1_LenSizeAlignment ==
    \A i \in BufIds : Live(i) =>
        /\ WLe(FromNat(1), reqLen[i]) /\ WLe(reqLen[i], MAX_ALLOCATION)
        /\ len(bufs[i]) = reqLen[i]
        /\ allocated_size(bufs[i]) = SmallestPageMultiple(reqLen[i])
        /\ is_aligned(bufs[i])
        /\ bufs[i].ptr.lo = 0

\* a buffer of 4097 bytes, still live after two writes
C1_Witness ==
    \E i \in BufIds :
        /\ Live(i) /\ reqLen[i] = FromNat(PAGE_SIZE + 1)
        /\ allocated_size(bufs[i]) = FromNat(2 * PAGE_SIZE)
        /\ writes = MaxWrites /\ ret.op = "copy" /\ ret.slot = i

\* C3: memory is released once per dropped buffer, always with the pointer
\* and the layout alloc was given, and every live block belongs to one live
\* buffer that stores that layout.
C3_ReleaseOnceSameLayout ==
    /\ ~badDealloc
    /\ deallocs = Cardinality({ i \in BufIds : bufs[i].st = "dropped" })
    /\ blocks = { [ptr |-> bufs[i].ptr, layout |-> bufs[i].layout] :
                    i \in { j \in BufIds : Live(j) } }
    /\ Cardinality(blocks) = Cardinality({ i \in BufIds : Live(i) })

\* a buffer of 4097 bytes was written, moved and dropped
C3_Witness ==
    /\ deallocs = 1 /\ writes > 0
    /\ \E i, j \in BufIds : bufs[i].st = "moved" /\ bufs[j].st = "dropped"
    /\ \E r \in mem : r.v = 1 /\ r.lo = W(17, 0) /\ r.hi = W(17, 1)

\* C4: when zeroed(L) returns a buffer, every byte of its allocated region,
\* the slack included, is 0.
C4_ZeroedClearsAllocated ==
    (ret.op = "zeroed" /\ ret.res.tag = "Ok") =>
        AllBytes(mem, bufs[ret.slot].ptr,
                 WAdd(bufs[ret.slot].ptr, allocated_size(bufs[ret.slot])), 0)

\* C5: the slices start at the buffer's address and span len() bytes, and no
\* step changes a byte of a live buffer's slack, len() <= offset <
\* allocated_size().
C5_SliceBounded ==
    [][\A i \in BufIds : Live(i) =>
         /\ as_slice(bufs[i]) = [ptr |-> bufs[i].ptr, len |-> len(bufs[i])]
         /\ as_mut_slice(bufs[i]) = [ptr |-> bufs[i].ptr, len |-> len(bufs[i])]
         /\ SameBytes(mem, mem', ViewEnd(bufs[i]),
                      WAdd(bufs[i].ptr, allocated_size(bufs[i])))]_umaVars

\* a one-byte buffer whose byte was written and differs from its slack
C5_Witness ==
    \E i \in BufIds :
        /\ Live(i) /\ len(bufs[i]) = FromNat(1)
        /\ ret.op \in {"write", "copy"} /\ ret.slot = i
        /\ ReadByte(mem, bufs[i].ptr) # ReadByte(mem, ViewEnd(bufs[i]))

\* C6: copy_from_slice(src) fails, with InvalidInput, exactly when src is
\* longer than len(); otherwise it returns Ok and the slice starts with src.
C6_CopyFromSlice ==
    ret.op = "copy" =>
        LET b == bufs[ret.slot]
            n == Len(ret.src)
        IN /\ ret.res.tag = "Err" <=> WLt(len(b), FromNat(n))
           /\ ret.res.tag = "Err" => ret.res.err.kind = "InvalidInput"
           /\ ret.res.tag = "Ok" =>
                \A k \in 1..n :
                    /\ WLt(FromNat(k - 1), as_slice(b).len)
                    /\ ReadByte(mem, WAdd(as_slice(b).ptr, FromNat(k - 1))) = ret.src[k]

\* a source exactly as long as the buffer was copied
C6_Witness ==
    /\ ret.op = "copy" /\ ret.res.tag = "Ok"
    /\ ret.src = <<1>> /\ len(bufs[ret.slot]) = FromNat(1)
    /\ ReadByte(mem, bufs[ret.slot].ptr) = 1

\* C7: new(0) and new(L) for L > MAX_ALLOCATION return InvalidInput and ask
\* the allocator for nothing; new(MAX_ALLOCATION) asks the allocator once and
\* succeeds when the answer is not null.
C7_LengthValidation ==
    ret.op = "new" =>
        /\ (ret.len = FromNat(0) \/ WLt(MAX_ALLOCATION, ret.len)) =>
              /\ ret.res.tag = "Err" /\ ret.res.err.kind = "InvalidInput"
              /\ ret.calls = <<>>
        /\ ret.len = MAX_ALLOCATION =>
              /\ Len(ret.calls) = 1
              /\ ret.calls[1].ptr # NullPtr =>
                    /\ ret.res.tag = "Ok"
                    /\ len(ret.res.val) = MAX_ALLOCATION

\* new(MAX_ALLOCATION) returned a buffer
C7_Witness ==
    /\ ret.op = "new" /\ ret.len = MAX_ALLOCATION /\ ret.res.tag = "Ok"
    /\ Live(ret.slot) /\ len(bufs[ret.slot]) = MAX_ALLOCATION

\* live buffers i and j share no byte
Apart(i, j) ==
    /\ bufs[i].ptr # bufs[j].ptr
    /\ ~Overlaps(bufs[i].ptr, WAdd(bufs[i].ptr, allocated_size(bufs[i])),
                 bufs[j].ptr, WAdd(bufs[j].ptr, allocated_size(bufs[j])))
    /\ ~Overlaps(bufs[i].ptr, ViewEnd(bufs[i]), bufs[j].ptr, ViewEnd(bufs[j]))

\* C8: two live buffers never share a start address or a byte, and a write or
\* a copy through one buffer changes no byte of another live buffer's slice.
C8_NoAliasing ==
    [][/\ \A i, j \in BufIds : (i # j /\ Live(i)' /\ Live(j)') => Apart(i, j)'
       /\ \A j \in BufIds :
            (Live(j) /\ ret'.op \in {"write", "copy"} /\ ret'.slot # j) =>
                SameBytes(mem, mem', bufs[j].ptr, ViewEnd(bufs[j]))]_umaVars

\* two live buffers on adjacent pages, the lower one just written
C8_Witness ==
    /\ \E i, j \in BufIds :
         /\ Live(i) /\ Live(j)
         /\ WAdd(bufs[i].ptr, allocated_size(bufs[i])) = bufs[j].ptr
         /\ ret.op = "write" /\ ret.slot = i /\ ret.idx = FromNat(0) /\ ret.v = 1
         /\ ReadByte(mem, bufs[j].ptr) = 0

-----------------------------------------------------------------------------
(* Properties of the service handle and the property query *)

\* C2: IOObjectRelease is called once for the handle of every dropped
\* monitor and not before the drop, whatever stats() returned; every service
\* found holds a non-zero handle; no release names handle 0 or a handle
\* without a reference; and a handle's references are those of the live
\* monitors that hold it.
C2_ReleasedExactlyOnce ==
    /\ ~badRelease
    /\ \A m \in MonIds :
         /\ relCount[m] = IF mons[m].st = "dropped" THEN 1 ELSE 0
         /\ mons[m].st # "none" => mons[m].service.service # 0
    /\ \A h \in Handles :
         urefs[h] = Cardinality({ m \in MonIds : LiveMon(m) /\ mons[m].service.service = h })

\* a monitor was dropped right after its stats() failed
C2_Witness ==
    /\ ioRet.op = "drop" /\ ioRet.after = "Err"
    /\ mons[ioRet.slot].st = "dropped" /\ relCount[ioRet.slot] = 1
    /\ urefs[mons[ioRet.slot].service.service] = 0

\* the candidate at place k would be found by a lookup
Found(k, nullMatch) ==
    /\ AFTERBURNER_SERVICE_NAMES[k] \in registry
    /\ AFTERBURNER_SERVICE_NAMES[k] \notin nullMatch

\* C9: a search looks the names up in the order AppleProResAccelerator,
\* AppleAfterburner, AFBAccelerator, stops at the first lookup that succeeds
\* and returns its handle; it returns None exactly when all three fail.
C9_FirstMatchInOrder ==
    ioRet.op \in {"new", "is_available"} =>
        LET L == ioRet.lookups
            n == Len(L)
            order == << "AppleProResAccelerator", "AppleAfterburner", "AFBAccelerator" >>
        IN /\ n \in 1..3
           /\ \A k \in 1..n : L[k].name = order[k]
           /\ \A k \in 1..(n - 1) : ~Found(k, ioRet.nullMatch)
           /\ IF \E k \in 1..3 : Found(k, ioRet.nullMatch)
              THEN /\ Found(n, ioRet.nullMatch)
                   /\ ioRet.res = Some(AfterburnerService(L[n].service))
                   /\ L[n].service # 0
              ELSE n = 3 /\ ioRet.res = None

\* the second name matched: the third, present too, was not looked up
C9_Witness ==
    /\ ioRet.op = "new" /\ ioRet.res.some
    /\ Len(ioRet.lookups) = 2
    /\ "AFBAccelerator" \in registry /\ "AFBAccelerator" \notin ioRet.nullMatch
    /\ LiveMon(ioRet.slot) /\ mons[ioRet.slot].service.service = 2

\* the raw field a property key is parsed into
FieldOf(k) ==
    CASE k = "StreamsActive" -> "streams_active"
      [] k = "StreamsCapacity" -> "streams_capacity"
      [] k = "Utilization" -> "utilization"
      [] k = "ThroughputFPS" -> "throughput_fps"
      [] k = "Temperature" -> "temperature"
      [] k = "PowerWatts" -> "power"

\* C10: when the fetch succeeds with a property set, get_stats returns Ok
\* whatever the set holds; the empty set gives 0, 23, 0.0, 0.0, None, None;
\* and each field is what the set's entry for its key alone parses to.
C10_PartialSnapshotAlwaysOk ==
    (query.op = "get_stats" /\ query.ans.status = KERN_SUCCESS /\ ~query.ans.null) =>
        /\ query.res.tag = "Ok"
        /\ query.ans.dict = EmptyDict =>
              query.res.val =
                 [streams_active |-> 0, streams_capacity |-> 23,
                  utilization |-> F(0), throughput_fps |-> F(0),
                  temperature |-> None, power |-> None]
        /\ \A k \in PropertyKeys :
              query.res.val[FieldOf(k)] =
                 parse_afterburner_properties(
                    [EmptyDict EXCEPT ![k] = query.ans.dict[k]])[FieldOf(k)]

\* a set with a missing count and a wrongly-typed temperature gave a
\* snapshot that holds the power reading
C10_Witness ==
    /\ query.op = "get_stats" /\ query.res.tag = "Ok"
    /\ query.ans.dict["StreamsActive"] = CFAbsent
    /\ query.ans.dict["Temperature"] = CFStringValue
    /\ query.ans.dict["PowerWatts"] = CFNumber(F(5))
    /\ query.res.val.power = Some(F(5))
    /\ query.res.val.temperature = None
    /\ query.res.val.streams_active = 0

\* C11: when the property fetch returns a status other than KERN_SUCCESS,
\* get_stats returns an IoKit error that carries that status; when it
\* succeeds with a null property set, an IoKit error with code 0; and in
\* both cases the result holds no snapshot.
C11_FetchFailureIsIoKitError ==
    query.op = "get_stats" =>
        LET ans == query.ans
            res == query.res
        IN /\ ans.status # KERN_SUCCESS =>
                 /\ res.tag = "Err"
                 /\ res.err.kind = "IoKit" /\ res.err.code = ans.status
           /\ (ans.status = KERN_SUCCESS /\ ans.null) =>
                 /\ res.tag = "Err"
                 /\ res.err.kind = "IoKit" /\ res.err.code = 0
           /\ res.tag = "Err" => DOMAIN res = {"tag", "err"}

\* the fetch failed and left the pointer null: the error carries the status
C11_Witness ==
    /\ query.op = "get_stats"
    /\ query.ans.status = -536870212 /\ query.ans.null
    /\ query.res = Err(Error_iokit(-536870212, "failed to get registry properties"))

-----------------------------------------------------------------------------
(* Properties of the projection *)

\* x lies strictly between lo and hi
StrictlyInside(lo, hi, x) == F64Lt(lo, x) /\ F64Lt(x, hi)

\* C12: the projected temperature is Some(t) exactly when the raw reading t
\* has 0 < t < 150, and is absent otherwise: for t = 0, for t = 150 and for
\* an absent raw reading.
C12_TemperatureStrictlyInside ==
    query.op = "convert" =>
        LET t == query.raw.temperature IN
        query.res.temperature_celsius =
            IF t.some /\ StrictlyInside(F(0), F(150), t.v) THEN Some(t.v) ELSE None

\* min(x, y) on f64: the other operand when one is NaN
MinOf(x, y) ==
    IF x.cls = "nan" THEN y ELSE IF y.cls = "nan" THEN x
    ELSE IF F64Lt(y, x) THEN y ELSE x

\* C13: the projected utilization is min(max(u, 0), 100) and lies in
\* [0, 100] for every raw utilization u, and the projected throughput is
\* max(t, 0) and is not negative for every raw throughput t.
C13_RatesClamped ==
    query.op = "convert" =>
        /\ query.res.utilization_percent =
              MinOf(f64_max(query.raw.utilization, F(0)), F(100))
        /\ F64Le(F(0), query.res.utilization_percent)
        /\ F64Le(query.res.utilization_percent, F(100))
        /\ query.res.throughput_fps = f64_max(query.raw.throughput_fps, F(0))
        /\ F64Le(F(0), query.res.throughput_fps)

\* C14: the projected power is Some(p) exactly when the raw reading p lies
\* strictly inside (0, 500), and is absent otherwise: for p = 0, for p = 500
\* and for an absent raw reading.
C14_PowerStrictlyInside ==
    query.op = "convert" =>
        LET p == query.raw.power IN
        query.res.power_watts =
            IF p.some /\ StrictlyInside(F(0), F(500), p.v) THEN Some(p.v) ELSE None

-----------------------------------------------------------------------------
(* Properties of the property parser *)

\* C15 as stated: when a floating-point key is absent from the property
\* set, the parsed raw field is absent.
C15_AbsentFloatIsNoData ==
    query.op = "parse" =>
        \A k \in { "Utilization", "ThroughputFPS", "Temperature", "PowerWatts" } :
            query.dict[k] = CFAbsent => query.res[FieldOf(k)] = None

\* C15, amended: when Temperature or PowerWatts is absent the parsed raw
\* field is absent, which differs from the Some(0.0) parsed from a stored
\* zero; when Utilization or ThroughputFPS is absent the parsed raw field
\* is the default 0.0.
C15_AbsentFloatNoDataOrDefault ==
    query.op = "parse" =>
        /\ \A k \in { "Temperature", "PowerWatts" } :
              /\ query.dict[k] = CFAbsent => query.res[FieldOf(k)] = None
              /\ query.dict[k] = CFNumber(F(0)) => query.res[FieldOf(k)] = Some(F(0))
        /\ \A k \in { "Utilization", "ThroughputFPS" } :
              query.dict[k] = CFAbsent => query.res[FieldOf(k)] = F(0)

\* a set that lacks the temperature and the rates and holds a power of 0.0
C15_Witness ==
    /\ query.op = "parse"
    /\ query.dict["Temperature"] = CFAbsent /\ query.res.temperature = None
    /\ query.dict["Utilization"] = CFAbsent /\ query.res.utilization = F(0)
    /\ query.dict["PowerWatts"] = CFNumber(F(0)) /\ query.res.power = Some(F(0))

\* the default of an integer-valued key
DefaultOf(k) == IF k = "StreamsCapacity" THEN 23 ELSE 0

\* C16: StreamsActive and StreamsCapacity parse to the stored value when it
\* is a number that is a non-negative 32-bit integer, and otherwise (key
\* absent, value not a number, number negative, fractional, NaN or 2^31 and
\* above) to the default: 0 for StreamsActive, 23 for StreamsCapacity.
C16_IntegerOrDefault ==
    query.op = "parse" =>
        \A k \in { "StreamsActive", "StreamsCapacity" } :
            LET value == query.dict[k]
                convertible ==
                    /\ value.t = "number"
                    /\ value.num.cls = "fin"
                    /\ value.num.h % 2 = 0
                    /\ value.num.h >= 0
            IN query.res[FieldOf(k)] =
                  IF convertible THEN value.num.h \div 2 ELSE DefaultOf(k)

\* a capacity too large for 32 bits parsed to 23 beside an active count
\* that parsed to its stored value
C16_Witness ==
    /\ query.op = "parse"
    /\ query.dict["StreamsCapacity"] = CFNumber(Big(1))
    /\ query.res.streams_capacity = 23
    /\ query.dict["StreamsActive"] = CFNumber(F(5))
    /\ query.res.streams_active = 5

-----------------------------------------------------------------------------
(* Properties of the monitor *)

\* the property fetch answered ans did not produce a property set
FetchFailed(ans) == ans.status # KERN_SUCCESS \/ ans.null

\* C17: a stats() call makes one property fetch, on the monitor's handle;
\* when the fetch fails stats() returns the fetch's IoKit error with its
\* status code (0 for a null set) and no snapshot; and stats() returns an
\* error only then: an empty set or an idle device gives Ok.
C17_StatsErrorOnlyFromFetch ==
    ioRet.op = "stats" =>
        /\ ioRet.fetches = << mons[ioRet.slot].service.service >>
        /\ ioRet.res.tag = "Err" <=> FetchFailed(ioRet.ans)
        /\ FetchFailed(ioRet.ans) =>
              /\ DOMAIN ioRet.res = {"tag", "err"}
              /\ ioRet.res.err.kind = "IoKit"
              /\ ioRet.res.err.code =
                    IF ioRet.ans.status # KERN_SUCCESS THEN ioRet.ans.status ELSE 0
              /\ ioRet.res.err.message \in
                    { "failed to get registry properties",
                      "registry properties returned null" }

\* a fetch failed with kIOReturnError and stats() returned that error
C17_Witness ==
    /\ ioRet.op = "stats" /\ LiveMon(ioRet.slot)
    /\ ioRet.ans.status = -536870212
    /\ ioRet.res = Err(Error_iokit(-536870212, "failed to get registry properties"))

\* what the search of the last call answered: new().is_some() or is_available()
Answered == IF ioRet.op = "is_available" THEN ioRet.available ELSE ioRet.res.some

-----------------------------------------------------------------------------
(* Further properties of the buffer allocator *)

\* C19: when zeroed(L) returns a buffer, every byte of its slice, offsets
\* 0 to L - 1, reads 0, whatever the memory held before.
C19_ZeroedSliceReadsZero ==
    (ret.op = "zeroed" /\ ret.res.tag = "Ok") =>
        /\ len(bufs[ret.slot]) = ret.len
        /\ AllBytes(mem, as_slice(bufs[ret.slot]).ptr,
                    WAdd(as_slice(bufs[ret.slot]).ptr, as_slice(bufs[ret.slot]).len), 0)

\* zeroed(4097) returned a buffer in memory that held 1s: its slice reads 0
\* and the last byte of its second page still reads 1
C19_Witness ==
    /\ ret.op = "zeroed" /\ ret.res.tag = "Ok"
    /\ ret.len = FromNat(PAGE_SIZE + 1) /\ Live(ret.slot)
    /\ ReadByte(mem, bufs[ret.slot].ptr) = 0
    /\ ReadByte(mem, WAdd(bufs[ret.slot].ptr, FromNat(PAGE_SIZE))) = 0
    /\ ReadByte(mem, WSub(WAdd(bufs[ret.slot].ptr, allocated_size(bufs[ret.slot])),
                          FromNat(1))) = 1

\* the request r reached the allocator, which answered null
NullAnswered(r) ==
    /\ r.op \in {"new", "zeroed"}
    /\ Len(r.calls) = 1
    /\ r.calls[1].ptr = NullPtr

\* C20: a new() or zeroed() whose request the allocator answers with null
\* returns an Internal error, and the step creates no buffer, writes no
\* byte, records no block and issues no dealloc; the place it was to fill
\* stays empty, so nothing is left to drop for it.
C20_NullAllocIsInternal ==
    [][NullAnswered(ret') =>
         /\ ret'.res.tag = "Err" /\ ret'.res.err.kind = "Internal"
         /\ bufs' = bufs /\ bufs'[ret'.slot].st = "none"
         /\ mem' = mem
         /\ blocks' = blocks
         /\ deallocs' = deallocs /\ badDealloc' = badDealloc]_umaVars

\* zeroed(1) failed on a null answer while another buffer was live
C20_Witness ==
    /\ NullAnswered(ret) /\ ret.op = "zeroed" /\ ret.len = FromNat(1)
    /\ ret.res.tag = "Err" /\ ret.res.err.kind = "Internal"
    /\ bufs[ret.slot].st = "none"
    /\ \E i \in BufIds : Live(i)
    /\ deallocs = 0

-----------------------------------------------------------------------------
(* Properties of the derived queries *)

\* C21: capacity_used_percent() is exactly 0.0 when streams_capacity is 0,
\* whatever streams_active is; with a capacity above 0 it is
\* streams_active / streams_capacity x 100, not negative, and above 100
\* exactly when streams_active > streams_capacity.
C21_CapacityUsedPercent ==
    query.op = "derived" =>
        LET a == query.stats.streams_active
            c == query.stats.streams_capacity
            p == query.percent
        IN /\ c = 0 => p = F(0)
           /\ c > 0 =>
                 /\ p.cls = "quotient" /\ p.den = c /\ p.num = 100 * a
                 /\ p.num >= 0 /\ p.den > 0
                 /\ (p.num > 100 * p.den) <=> (a > c)

\* 24 streams on a capacity of 23 read above 100 percent
C21_Witness ==
    /\ query.op = "derived"
    /\ query.stats.streams_active = 24 /\ query.stats.streams_capacity = 23
    /\ query.percent.num > 100 * query.percent.den

-----------------------------------------------------------------------------
(* Properties of the error type *)

\* C24: error_code() is Some(code), the code the error holds, for the IoKit
\* and Security variants and every i32 code, and None for every other
\* variant.
C24_ErrorCode ==
    query.op = "error" =>
        IF query.err.kind \in {"IoKit", "Security"}
        THEN query.code = Some(query.err.code)
        ELSE /\ query.code = None
             /\ query.err.kind \in
                   { "NotAvailable", "Metal", "CoreMl", "InvalidInput", "Timeout",
                     "PermissionDenied", "NotFound", "Internal" }

\* a Security error with the lowest i32 answered its code
C24_Witness ==
    /\ query.op = "error" /\ query.err.kind = "Security"
    /\ query.err.code = -2147483647 - 1
    /\ query.code = Some(-2147483647 - 1)

\* m holds p as a substring
Contains(m, p) ==
    \E i \in 0..(Len(m) - Len(p)) : SubSeq(m, i + 1, i + Len(p)) = p

\* the payload of an error, as Display prints it
PayloadText(e) ==
    CASE e.kind = "NotAvailable" -> { Subsystem_to_string(e.subsystem) }
      [] e.kind = "IoKit" -> { ToString(e.code), e.message }
      [] e.kind = "Metal" -> { e.message }
      [] e.kind = "CoreMl" -> { e.message }
      [] e.kind = "Security" -> { ToString(e.code) }
      [] e.kind = "InvalidInput" -> { e.reason }
      [] e.kind = "Timeout" -> { ToString(e.duration_ms) }
      [] e.kind = "PermissionDenied" -> { e.operation }
      [] e.kind = "NotFound" -> { e.resource }
      [] e.kind = "Internal" -> { e.details }

\* C25: the Display message of every error, whatever its payload (an empty
\* string, a code or duration of 0), is longer than 10 characters, is not
\* the word "error" in any case, and holds the payload.
C25_DisplayUseful ==
    query.op = "error" =>
        /\ Len(query.msg) > 10
        /\ query.msg \notin { "error", "Error", "ERROR" }
        /\ \A p \in PayloadText(query.err) : Contains(query.msg, p)

\* a Metal error with an empty message prints 13 characters
C25_Witness ==
    /\ query.op = "error" /\ query.err = Error_metal("")
    /\ query.msg = "Metal error: " /\ Len(query.msg) = 13

-----------------------------------------------------------------------------
(* Properties of the compute dispatch *)

\* x * y * z with no digit dropped
MathProduct(t) == FullProduct(FullProduct(t[1], t[2]), t[3])

\* C26: dispatch returns InvalidInput for every threadgroup size whose
\* product x * y * z, as a number, is above 1024, whatever the non-zero
\* grid size and the buffers.
C26_ThreadgroupLimit ==
    (/\ query.op = "dispatch"
     /\ \A k \in 1..3 : query.grid_size[k] # U32(0)
     /\ Above1024(MathProduct(query.threadgroup_size))) =>
        /\ query.res.tag = "Err"
        /\ query.res.err.kind = "InvalidInput"

-----------------------------------------------------------------------------
(* Properties of the signer *)

\* C27: for one signer and non-empty data d1 and d2, the signatures of d1
\* and d2 differ and verify(d2, sign(d1)) is Ok(false) when d1 # d2, and
\* verify(d, sign(d)) is Ok(true).
C27_DifferentDataDifferentSignature ==
    (query.op = "sign" /\ query.d2 # << >>) =>
        IF query.d1 # query.d2
        THEN /\ query.sig1 # query.sig2
             /\ query.verified = Ok(FALSE)
        ELSE query.verified = Ok(TRUE)

-----------------------------------------------------------------------------
(* Handles held against monitors alive *)

RECURSIVE TotalRefs(_, _)
TotalRefs(u, hs) ==
    IF hs = {} THEN 0
    ELSE LET h == CHOOSE x \in hs : TRUE IN u[h] + TotalRefs(u, hs \ {h})

Unreleased == TotalRefs(urefs, Handles)

Alive == Cardinality({ m \in MonIds : LiveMon(m) })

\* C28: after any sequence of is_available(), new(), stats() and drops, the
\* number of handles acquired and not released equals the number of live
\* monitors: an is_available() has released what it acquired when it
\* returns, and a search that returns None acquired no handle.
C28_UnreleasedEqualsAlive ==
    /\ Unreleased = Alive
    /\ ~badRelease
    /\ (ioRet.op \in {"new", "is_available"} /\ ~ioRet.res.some) =>
           \A k \in 1..Len(ioRet.lookups) : ioRet.lookups[k].service = 0

C28_Witness ==
    /\ ioRet.op = "is_available"
    /\ ioRet.available
    /\ Alive = 1
    /\ \E m \in MonIds : mons[m].st = "dropped"
    /\ C28_UnreleasedEqualsAlive

-----------------------------------------------------------------------------
(* Calls on a monitor's service *)

\* C29: stats() and name() make their native call on the handle the live
\* monitor holds, which is not zero and not released; they do not release,
\* zero or replace it, so a call that follows another call on the same
\* monitor, a failed stats() included, uses the same handle.
C29_CallsUseUnreleasedHandle ==
    [][ioRet'.op \in {"stats", "name"} =>
          LET m == ioRet'.slot IN
          /\ LiveMon(m)
          /\ ioRet'.fetches = << mons[m].service.service >>
          /\ mons[m].service.service # 0
          /\ urefs[mons[m].service.service] > 0
          /\ relCount[m] = 0
          /\ mons' = mons /\ urefs' = urefs /\ relCount' = relCount
          /\ ~badRelease'
          /\ ioRet'.before.call => ioRet'.before.handle = mons'[m].service.service]_ioVars

C29_Witness ==
    /\ ioRet.op \in {"stats", "name"}
    /\ ioRet.before.call /\ ioRet.before.failed
    /\ ioRet.before.handle = mons[ioRet.slot].service.service
    /\ urefs[ioRet.fetches[1]] > 0
    /\ \E m \in MonIds : mons[m].st = "dropped"

-----------------------------------------------------------------------------
(* What copy_from_slice leaves alone *)

\* C30: a copy_from_slice(src) that succeeds leaves every byte of the buffer
\* at an index >= src.len() as it was, and len(), allocated_size() and the
\* start address unchanged; one that fails leaves all the memory and the
\* buffer's fields unchanged.
C30_CopyFrame ==
    [][ret'.op = "copy" =>
          LET b == bufs[ret'.slot]
              after == bufs'[ret'.slot]
          IN /\ len(after) = len(b)
             /\ allocated_size(after) = allocated_size(b)
             /\ after.ptr = b.ptr
             /\ IF ret'.res.tag = "Ok"
                THEN SameBytes(mem, mem', WAdd(b.ptr, FromNat(Len(ret'.src))),
                               ViewEnd(b))
                ELSE mem' = mem /\ bufs' = bufs]_umaVars

\* one byte was copied into a longer buffer, and the byte after it differs
C30_Witness ==
    /\ ret.op = "copy" /\ ret.res.tag = "Ok" /\ ret.src = << 1 >>
    /\ Live(ret.slot)
    /\ WLt(FromNat(1), len(bufs[ret.slot]))
    /\ ReadByte(mem, WAdd(bufs[ret.slot].ptr, FromNat(1))) # 1

====
